---- MODULE Spec2Model ----
(***************************************************************************)
(* Model of the command-line contact manager in src/main.py: the Record    *)
(* and AddressBook data model, the command handlers, the upcoming-birthday *)
(* computation, the pickle persistence and the command loop of main().     *)
(*                                                                         *)
(* Python strings are sequences of one-character strings, a datetime is    *)
(* the tuple <<year, month, day>>, None is the empty tuple, and a call     *)
(* that can raise returns a record with a field naming the exception.      *)
(***************************************************************************)
EXTENDS Integers, Sequences, FiniteSets, TLC

VARIABLES book, file, pc, out, cmd, pre, steps

vars == <<book, file, pc, out, cmd, pre, steps>>

----------------------------------------------------------------------------
(* Bounds of the exploration *)

MaxSteps == 5

----------------------------------------------------------------------------
(* str: characters, predicates and conversions *)

None == <<>>

DigitChars == <<"0", "1", "2", "3", "4", "5", "6", "7", "8", "9">>

Digits == {DigitChars[i] : i \in 1..10}

Letters == {"a", "b", "n", "o"}

isdigit(s) == Len(s) > 0 /\ \A i \in 1..Len(s) : s[i] \in Digits

isalpha(s) == Len(s) > 0 /\ \A i \in 1..Len(s) : s[i] \in Letters

DigitVal(c) == (CHOOSE i \in 1..10 : DigitChars[i] = c) - 1

RECURSIVE DecVal(_)
DecVal(s) == IF Len(s) = 0 THEN 0
             ELSE 10 * DecVal(SubSeq(s, 1, Len(s) - 1)) + DigitVal(s[Len(s)])

\* int(str): an optional sign followed by decimal digits, else ValueError
int(s) ==
    IF isdigit(s) THEN [raised |-> "", value |-> DecVal(s)]
    ELSE IF Len(s) > 1 /\ s[1] = "-" /\ isdigit(Tail(s))
         THEN [raised |-> "", value |-> 0 - DecVal(Tail(s))]
    ELSE IF Len(s) > 1 /\ s[1] = "+" /\ isdigit(Tail(s))
         THEN [raised |-> "", value |-> DecVal(Tail(s))]
    ELSE [raised |-> "ValueError", value |-> 0]

\* the decimal digit of n at the power of ten p, as a character
DigitAt(n, p) == DigitChars[((n \div p) % 10) + 1]

Pad2(n) == <<DigitAt(n, 10), DigitAt(n, 1)>>

Pad4(n) == <<DigitAt(n, 1000), DigitAt(n, 100), DigitAt(n, 10), DigitAt(n, 1)>>

Min(S) == CHOOSE x \in S : \A y \in S : x <= y

Max(S) == CHOOSE x \in S : \A y \in S : x >= y

----------------------------------------------------------------------------
(* datetime: the proleptic Gregorian calendar *)

IsLeap(y) == (y % 4 = 0) /\ ((y % 100 # 0) \/ (y % 400 = 0))

DaysInMonth(y, m) ==
    IF m = 2 THEN (IF IsLeap(y) THEN 29 ELSE 28)
    ELSE IF m \in {4, 6, 9, 11} THEN 30 ELSE 31

RECURSIVE DaysBeforeMonth(_, _)
DaysBeforeMonth(y, m) ==
    IF m = 1 THEN 0 ELSE DaysBeforeMonth(y, m - 1) + DaysInMonth(y, m - 1)

DaysBeforeYear(y) ==
    LET p == y - 1 IN p * 365 + (p \div 4) - (p \div 100) + (p \div 400)

toordinal(dt) == DaysBeforeYear(dt[1]) + DaysBeforeMonth(dt[1], dt[2]) + dt[3]

\* date.weekday(): Monday is 0, Sunday is 6
weekday(dt) == (toordinal(dt) + 6) % 7

NextDay(dt) ==
    IF dt[3] < DaysInMonth(dt[1], dt[2]) THEN <<dt[1], dt[2], dt[3] + 1>>
    ELSE IF dt[2] < 12 THEN <<dt[1], dt[2] + 1, 1>>
    ELSE <<dt[1] + 1, 1, 1>>

\* date + timedelta(n), n >= 0
RECURSIVE AddDays(_, _)
AddDays(dt, n) == IF n = 0 THEN dt ELSE AddDays(NextDay(dt), n - 1)

\* a < b on dates
DateLess(a, b) == toordinal(a) < toordinal(b)

\* datetime.replace(year=y): ValueError when the day does not exist in year y
replace_year(dt, y) ==
    IF dt[3] > DaysInMonth(y, dt[2])
    THEN [raised |-> "ValueError", value |-> None]
    ELSE [raised |-> "", value |-> <<y, dt[2], dt[3]>>]

\* strftime("%d.%m.%Y")
strftime(dt) == Pad2(dt[3]) \o <<".">> \o Pad2(dt[2]) \o <<".">> \o Pad4(dt[1])

DotPos(s) == {i \in 1..Len(s) : s[i] = "."}

\* datetime.strptime(s, "%d.%m.%Y"): day and month of one or two digits, a
\* year of four digits, and a date that exists; ValueError otherwise
strptime(s) ==
    LET bad == [raised |-> "ValueError", value |-> None] IN
    IF Cardinality(DotPos(s)) # 2 THEN bad
    ELSE LET i  == Min(DotPos(s))
             j  == Max(DotPos(s))
             ds == SubSeq(s, 1, i - 1)
             ms == SubSeq(s, i + 1, j - 1)
             ys == SubSeq(s, j + 1, Len(s))
         IN IF ~(isdigit(ds) /\ isdigit(ms) /\ isdigit(ys)) THEN bad
            ELSE IF ~(Len(ds) \in 1..2 /\ Len(ms) \in 1..2 /\ Len(ys) = 4) THEN bad
            ELSE LET d == DecVal(ds)
                     m == DecVal(ms)
                     y == DecVal(ys)
                 IN IF m \in 1..12 /\ y >= 1 /\ d >= 1 /\ d <= DaysInMonth(y, m)
                    THEN [raised |-> "", value |-> <<y, m, d>>]
                    ELSE bad

----------------------------------------------------------------------------
(* Console lines: a text with up to two interpolated strings *)

Msg(text, a, b) == [text |-> text, a |-> a, b |-> b]

\* str(i) for a list index
str_int(i) == IF i < 10 THEN <<DigitAt(i, 1)>> ELSE Pad2(i)

\* "; ".join(phones)
RECURSIVE Join(_)
Join(ps) == IF Len(ps) = 0 THEN <<>>
            ELSE IF Len(ps) = 1 THEN ps[1]
            ELSE ps[1] \o <<";", " ">> \o Join(Tail(ps))

----------------------------------------------------------------------------
(* Validation decorators *)

\* name_validation: reports a non-alphabetic name and calls the function anyway
name_validation(entered_name) ==
    IF ~isalpha(entered_name)
    THEN <<Msg("The provided name is in incorrect format and cannot be accepted", <<>>, <<>>)>>
    ELSE <<>>

phone_ok(arg) == isdigit(arg) /\ Len(arg) = 10

\* phone_validation: the first malformed argument is reported and the
\* decorated method is not called
phone_validation(args) ==
    LET badargs == {i \in 1..Len(args) : ~phone_ok(args[i])} IN
    IF badargs = {} THEN [pass |-> TRUE, printed |-> <<>>]
    ELSE [pass |-> FALSE,
          printed |-> <<Msg("{a} is in incorrect format", args[Min(badargs)], <<>>)>>]

----------------------------------------------------------------------------
(* Record *)

\* Record.__init__ with Name.__init__ under name_validation
Record(name) ==
    [rec |-> [name |-> name, phones |-> <<>>, birthday |-> None],
     printed |-> name_validation(name)]

\* list.index(x): the first position (from 1) holding x, 0 when absent
index(phones, phone) ==
    IF \E i \in 1..Len(phones) : phones[i] = phone
    THEN Min({i \in 1..Len(phones) : phones[i] = phone})
    ELSE 0

add_phone(rec, phone) ==
    LET v == phone_validation(<<phone>>) IN
    IF ~v.pass THEN [rec |-> rec, printed |-> v.printed]
    ELSE IF \E i \in 1..Len(rec.phones) : rec.phones[i] = phone
         THEN [rec |-> rec, printed |-> <<>>]
         ELSE [rec |-> [rec EXCEPT !.phones = Append(@, phone)], printed |-> <<>>]

find_phone(rec, phone) ==
    LET v == phone_validation(<<phone>>) IN
    IF ~v.pass THEN [ret |-> None, printed |-> v.printed]
    ELSE IF index(rec.phones, phone) # 0
         THEN [ret |-> rec.phones[index(rec.phones, phone)], printed |-> <<>>]
         ELSE [ret |-> None,
               printed |-> <<Msg("No such phone here, wanna add it?", <<>>, <<>>)>>]

edit_phone(rec, old_phone, new_phone) ==
    LET v == phone_validation(<<old_phone, new_phone>>) IN
    IF ~v.pass THEN [rec |-> rec, printed |-> v.printed]
    ELSE IF index(rec.phones, old_phone) # 0
         THEN [rec |-> [rec EXCEPT !.phones[index(rec.phones, old_phone)] = new_phone],
               printed |-> <<Msg("Number edited", <<>>, <<>>)>>]
         ELSE [rec |-> rec, printed |-> <<>>]

delete_phone(rec, phone) ==
    LET v == phone_validation(<<phone>>)
        i == index(rec.phones, phone)
    IN IF ~v.pass THEN [rec |-> rec, printed |-> v.printed]
       ELSE IF i # 0
            THEN [rec |-> [rec EXCEPT !.phones =
                               SubSeq(@, 1, i - 1) \o SubSeq(@, i + 1, Len(@))],
                  printed |-> <<Msg("Success, phone removed", <<>>, <<>>)>>]
            ELSE [rec |-> rec,
                  printed |-> <<Msg("No such phone found in the record", <<>>, <<>>)>>]

\* Birthday.__init__: the parsed datetime, or ValueError
Birthday(value) == strptime(value)

\* Record.__str__
str_record(rec) == Msg("Contact name: {a}, phones: {b}", rec.name, Join(rec.phones))

----------------------------------------------------------------------------
(* AddressBook: a dict in insertion order, as the sequence of its Records *)

\* position of the key in the dict, 0 when absent
key_index(b, name) ==
    IF \E i \in 1..Len(b) : b[i].name = name
    THEN CHOOSE i \in 1..Len(b) : b[i].name = name
    ELSE 0

add_record(b, rec) ==
    IF key_index(b, rec.name) # 0
    THEN [b EXCEPT ![key_index(b, rec.name)] = rec]
    ELSE Append(b, rec)

find(b, entered_name) ==
    IF key_index(b, entered_name) # 0
    THEN [idx |-> key_index(b, entered_name),
          printed |-> <<Msg("Fetching {a}...", entered_name, <<>>)>>]
    ELSE [idx |-> 0, printed |-> <<Msg("Who is this {a}?", entered_name, <<>>)>>]

delete(b, name) ==
    LET i == key_index(b, name) IN
    IF i # 0
    THEN [book |-> SubSeq(b, 1, i - 1) \o SubSeq(b, i + 1, Len(b)),
          printed |-> <<Msg("Deleting {a}...", name, <<>>)>>]
    ELSE [book |-> b, printed |-> <<Msg("{a} does not exist", name, <<>>)>>]

\* AddressBook.__str__, one line per Record
str_book(b) == [i \in 1..Len(b) |-> str_record(b[i])]

----------------------------------------------------------------------------
(* Command handlers.  A handler's outcome: the book it leaves, the lines it *)
(* printed, the value it returned and the exception it raised ("" if none). *)

NoneMsg == Msg("None", <<>>, <<>>)

Return(b, printed, ret) == [book |-> b, printed |-> printed, ret |-> ret, raised |-> ""]

Raise(b, printed, exc) == [book |-> b, printed |-> printed, ret |-> NoneMsg, raised |-> exc]

\* input_error: ValueError, IndexError and KeyError become the returned text
input_error(r) ==
    IF r.raised = "ValueError"
    THEN Return(r.book, r.printed, Msg("Give me name and phone please.", <<>>, <<>>))
    ELSE IF r.raised = "IndexError"
    THEN Return(r.book, r.printed,
                Msg("No contacts saved. First you need to add at least one contact", <<>>, <<>>))
    ELSE IF r.raised = "KeyError"
    THEN Return(r.book, r.printed, Msg("No person unders such name/nickname", <<>>, <<>>))
    ELSE r

add_contact(args, b) ==
    input_error(
    IF Len(args) < 2 THEN Raise(b, <<>>, "ValueError")
    ELSE LET name    == args[1]
             phone   == args[2]
             f       == find(b, name)
             made    == Record(name)
             b1      == IF f.idx = 0 THEN add_record(b, made.rec) ELSE b
             p1      == f.printed \o (IF f.idx = 0 THEN made.printed ELSE <<>>)
             message == IF f.idx = 0 THEN "Contact added." ELSE "Contact updated."
             i       == key_index(b1, name)
             ap      == add_phone(b1[i], phone)
         IN IF Len(phone) > 0
            THEN Return([b1 EXCEPT ![i] = ap.rec], p1 \o ap.printed, Msg(message, <<>>, <<>>))
            ELSE Return(b1, p1, Msg(message, <<>>, <<>>)))

\* the loop variable shadows the argument: the first key of the book is deleted
delete_contact(name, b) ==
    input_error(
    IF Len(b) = 0 THEN Return(b, <<>>, NoneMsg)
    ELSE LET d == delete(b, b[1].name)
         IN Return(d.book, d.printed, Msg("Contact {a} deleted.", b[1].name, <<>>)))

\* list[key] with Python's negative indices; 0 when out of range
py_index(n, key) ==
    IF key >= 0 /\ key < n THEN key + 1
    ELSE IF key < 0 /\ key >= 0 - n THEN n + key + 1
    ELSE 0

\* the lines change_contact prints before it reads the selection
phone_menu(name, phones) ==
    <<Msg("The contact {a} has following phones:", name, <<>>)>>
    \o [i \in 1..Len(phones) |-> Msg("{a}: {b}", str_int(i - 1), phones[i])]

\* selection: the line read by input() when the Record has several phones
change_contact(args, b, selection) ==
    input_error(
    IF Len(args) # 2 THEN Raise(b, <<>>, "ValueError")
    ELSE LET name      == args[1]
             new_phone == args[2]
             f         == find(b, name)
         IN IF f.idx = 0 THEN Raise(b, f.printed, "KeyError")
            ELSE LET phones == b[f.idx].phones
                     menu   == f.printed \o phone_menu(name, phones)
                     key    == int(selection)
                     at     == py_index(Len(phones), key.value)
                 IN IF Len(phones) > 1
                    THEN IF key.raised # "" THEN Raise(b, menu, key.raised)
                         ELSE IF at = 0 THEN Raise(b, menu, "IndexError")
                         ELSE LET phone == phones[at]
                                  ed    == edit_phone(b[f.idx], phone, new_phone)
                              IN Return([b EXCEPT ![f.idx] = ed.rec], menu \o ed.printed,
                                        Msg("Contact updated succesfully. Number {a} was replaced with {b}.",
                                            phone, new_phone))
                    ELSE Return(b, f.printed, Msg("No phones to edit", <<>>, <<>>)))

add_birthday(args, b) ==
    input_error(
    IF Len(args) # 2 THEN Raise(b, <<>>, "ValueError")
    ELSE LET name      == args[1]
             birthdate == args[2]
             f         == find(b, name)
             bd        == Birthday(birthdate)
         IN IF f.idx # 0
            THEN IF bd.raised # "" THEN Raise(b, f.printed, bd.raised)
                 ELSE Return([b EXCEPT ![f.idx].birthday = bd.value], f.printed,
                             Msg("Birthday added for {a}", name, <<>>))
            ELSE Return(b, f.printed, Msg("Contact not found in the address book", <<>>, <<>>)))

show_birthday(args, b) ==
    input_error(
    IF Len(args) = 0 THEN Raise(b, <<>>, "IndexError")
    ELSE LET name == args[1]
             f    == find(b, name)
         IN IF f.idx = 0
            THEN Return(b, f.printed, Msg("No contact found with the name {a}", name, <<>>))
            ELSE IF b[f.idx].birthday # None
            THEN Return(b, f.printed,
                        Msg("The birthday of {a} is {b}", name, strftime(b[f.idx].birthday)))
            ELSE Return(b, f.printed, Msg("No birthday information found for {a}", name, <<>>)))

----------------------------------------------------------------------------
(* Upcoming birthdays *)

\* a faulty shift: a Saturday occurrence moved by one day only
WeekendShift_SaturdayPlusOne(wd) == IF wd < 5 THEN 0 ELSE 1

\* timedelta added to an occurrence on weekday wd
WeekendShift(wd) == IF wd < 5 THEN 0 ELSE IF wd = 5 THEN 2 ELSE 1

\* one iteration of the loop of get_upcoming_birthdays over a Record: the
\* entry it stores ("skip" for continue) or the ValueError it raises
upcoming_entry(rec, today, days) ==
    LET this == replace_year(rec.birthday, today[1])
        next == replace_year(rec.birthday, today[1] + 1)
    IN IF rec.birthday = None THEN [raised |-> "", kind |-> "skip", date |-> <<>>]
       ELSE IF this.raised # "" THEN [raised |-> this.raised, kind |-> "skip", date |-> <<>>]
       ELSE IF DateLess(this.value, today) /\ next.raised # ""
            THEN [raised |-> next.raised, kind |-> "skip", date |-> <<>>]
       ELSE LET birthday == IF DateLess(this.value, today) THEN next.value ELSE this.value
            IN IF toordinal(birthday) - toordinal(today) > days
               THEN [raised |-> "", kind |-> "skip", date |-> <<>>]
               ELSE [raised |-> "", kind |-> "entry",
                     date |-> strftime(AddDays(birthday, WeekendShift(weekday(birthday))))]

\* the loop from Record i on, acc being the dict bdays built so far
RECURSIVE upcoming_from(_, _, _, _, _, _)
upcoming_from(b, today, days, i, acc, printed) ==
    IF i > Len(b) THEN [raised |-> "", value |-> acc, printed |-> printed]
    ELSE LET e == upcoming_entry(b[i], today, days)
             p == printed \o find(b, b[i].name).printed
         IN IF e.raised # "" THEN [raised |-> e.raised, value |-> <<>>, printed |-> p]
            ELSE IF e.kind = "skip" THEN upcoming_from(b, today, days, i + 1, acc, p)
            ELSE upcoming_from(b, today, days, i + 1,
                               Append(acc, [name |-> b[i].name, date |-> e.date]), p)

\* the dict name -> reminder date, in insertion order
get_upcoming_birthdays(b, today, days) == upcoming_from(b, today, days, 1, <<>>, <<>>)

\* birthdays(book): the method it calls is a module-level function, not an
\* attribute of AddressBook, and AttributeError is not caught by input_error
birthdays(b) == input_error(Raise(b, <<>>, "AttributeError"))

----------------------------------------------------------------------------
(* Persistence: the pickled book as a sequence of bytes *)

Chars == DigitChars \o <<"a", "b", "n", "o", ".", "-", "x">>

ord(c) == CHOOSE i \in 1..Len(Chars) : Chars[i] = c

chr(i) == Chars[i]

\* a str: its length, then its characters
dump_str(s) == <<Len(s)>> \o [i \in 1..Len(s) |-> ord(s[i])]

RECURSIVE dump_list(_)
dump_list(ps) == IF Len(ps) = 0 THEN <<>> ELSE dump_str(ps[1]) \o dump_list(Tail(ps))

\* a faulty dump: the birthday is not written
dump_birthday_dropped(bd) == <<0>>

\* a datetime: two bytes of year, then month and day
dump_birthday(bd) ==
    IF bd = None THEN <<0>> ELSE <<1, bd[1] \div 256, bd[1] % 256, bd[2], bd[3]>>

dump_record(rec) ==
    dump_str(rec.name) \o <<Len(rec.phones)>> \o dump_list(rec.phones)
    \o dump_birthday(rec.birthday)

RECURSIVE dump_records(_)
dump_records(b) == IF Len(b) = 0 THEN <<>> ELSE dump_record(b[1]) \o dump_records(Tail(b))

pickle_dump(b) == <<Len(b)>> \o dump_records(b)

\* readers return the value and the position after it
load_str(bytes, pos) ==
    [value |-> [i \in 1..bytes[pos] |-> chr(bytes[pos + i])], next |-> pos + bytes[pos] + 1]

RECURSIVE load_list(_, _, _)
load_list(bytes, pos, n) ==
    IF n = 0 THEN [value |-> <<>>, next |-> pos]
    ELSE LET h == load_str(bytes, pos)
             t == load_list(bytes, h.next, n - 1)
         IN [value |-> <<h.value>> \o t.value, next |-> t.next]

load_birthday(bytes, pos) ==
    IF bytes[pos] = 0 THEN [value |-> None, next |-> pos + 1]
    ELSE [value |-> <<bytes[pos + 1] * 256 + bytes[pos + 2], bytes[pos + 3], bytes[pos + 4]>>,
          next |-> pos + 5]

load_record(bytes, pos) ==
    LET nm == load_str(bytes, pos)
        ps == load_list(bytes, nm.next + 1, bytes[nm.next])
        bd == load_birthday(bytes, ps.next)
    IN [value |-> [name |-> nm.value, phones |-> ps.value, birthday |-> bd.value],
        next |-> bd.next]

RECURSIVE load_records(_, _, _)
load_records(bytes, pos, n) ==
    IF n = 0 THEN <<>>
    ELSE LET r == load_record(bytes, pos)
         IN <<r.value>> \o load_records(bytes, r.next, n - 1)

pickle_load(bytes) == load_records(bytes, 2, bytes[1])

NoFile == [exists |-> FALSE, bytes |-> <<>>]

save_data(b) == [exists |-> TRUE, bytes |-> pickle_dump(b)]

\* FileNotFoundError gives an empty AddressBook
load_data(f) == IF f.exists THEN pickle_load(f.bytes) ELSE <<>>

----------------------------------------------------------------------------
(* Inputs of the exploration *)

ann == <<"a", "n", "n">>

bob == <<"b", "o", "b">>

a1 == <<"a", "1">>

P1 == <<"0", "5", "0", "1", "1", "1", "1", "1", "1", "1">>

P2 == <<"0", "5", "0", "2", "2", "2", "2", "2", "2", "2">>

ShortPhone == <<"1", "2", "3">>

PhoneArgs == {P1, P2, ShortPhone}

\* 15.06.1990, 29.02.2000, 1.1.1991 and the impossible 31.02.2000
DateArgs == {<<"1", "5", ".", "0", "6", ".", "1", "9", "9", "0">>,
             <<"2", "9", ".", "0", "2", ".", "2", "0", "0", "0">>,
             <<"1", ".", "1", ".", "1", "9", "9", "1">>,
             <<"3", "1", ".", "0", "2", ".", "2", "0", "0", "0">>}

\* lines typed at the selection prompt of change
Selections == {<<"0">>, <<"-", "1">>, <<"5">>, <<"x">>}

\* values of datetime.today(): before 15 June (a Saturday in 2024, a Sunday
\* in 2025, a Monday in 2026), the turn of the year, and the end of February
Todays == {<<2024, 6, 7>>, <<2024, 6, 8>>, <<2025, 6, 10>>, <<2026, 6, 10>>,
           <<2024, 12, 28>>, <<2024, 2, 25>>, <<2024, 3, 1>>}

\* get_upcoming_birthdays(self, days=7)
DefaultDays == 7

AddArgs == {<<ann>>, <<ann, P1, P2>>, <<bob, P1>>, <<a1, P1>>}
           \cup {<<ann, p>> : p \in PhoneArgs}

ChangeArgs == {<<ann>>, <<bob, P2>>, <<a1, P2>>} \cup {<<ann, p>> : p \in PhoneArgs}

BirthdayArgs == {<<ann>>} \cup {<<n, d>> : n \in {ann, bob}, d \in DateArgs}

NameOnlyArgs == {<<>>, <<ann>>, <<bob>>}

ExitWords == {"close", "bb", "EXIT"}

----------------------------------------------------------------------------
(* main *)

\* str.lower() on the command words typed in this exploration
lower(w) == IF w = "EXIT" THEN "exit" ELSE w

\* parse_input: the first word lowered and the remaining words; unpacking
\* the split of a blank line raises ValueError
parse_input(user_input) ==
    IF Len(user_input) = 0 THEN [raised |-> "ValueError", command |-> "", args |-> <<>>]
    ELSE [raised |-> "", command |-> lower(user_input[1]), args |-> Tail(user_input)]

Init ==
    /\ book = <<>>
    /\ file = NoFile
    /\ pc = "idle"
    /\ out = <<>>
    /\ cmd = [line |-> <<>>, sel |-> <<>>, today |-> <<>>, from |-> "idle"]
    /\ pre = <<>>
    /\ steps = 0

\* the session begins: the welcome line, then load_data()
StartSession ==
    /\ pc \in {"idle", "closed", "crashed"}
    /\ steps < MaxSteps
    /\ book' = load_data(file)
    /\ pc' = "running"
    /\ out' = <<Msg("Welcome to the assistant bot!", <<>>, <<>>)>>
    /\ cmd' = [line |-> <<"(start)">>, sel |-> <<>>, today |-> <<>>, from |-> pc]
    /\ pre' = book
    /\ steps' = steps + 1
    /\ UNCHANGED file

\* one turn of the loop on a line that is not an exit word: the handler's
\* outcome r is printed, and an exception that escapes ends the process
Turn(user_input, selection, today, r, shown) ==
    /\ pc = "running"
    /\ steps < MaxSteps
    /\ book' = r.book
    /\ out' = IF r.raised = "" THEN r.printed \o shown ELSE r.printed
    /\ pc' = IF r.raised = "" THEN "running" ELSE "crashed"
    /\ cmd' = [line |-> user_input, sel |-> selection, today |-> today, from |-> pc]
    /\ pre' = book
    /\ steps' = steps + 1
    /\ UNCHANGED file

BlankLine ==
    LET p == parse_input(<<>>)
    IN /\ p.raised # ""
       /\ Turn(<<>>, <<>>, <<>>, Raise(book, <<>>, p.raised), <<>>)

Close ==
    \E w \in ExitWords :
        /\ pc = "running"
        /\ steps < MaxSteps
        /\ parse_input(<<w>>).command \in {"close", "exit", "bb"}
        /\ out' = <<Msg("Goodbye!", <<>>, <<>>)>>
        /\ file' = save_data(book)
        /\ pc' = "closed"
        /\ cmd' = [line |-> <<w>>, sel |-> <<>>, today |-> <<>>, from |-> pc]
        /\ pre' = book
        /\ steps' = steps + 1
        /\ UNCHANGED book

Hello ==
    \E w \in {"hello", "qq"} :
        Turn(<<w>>, <<>>, <<>>, Return(book, <<>>, NoneMsg),
             <<Msg("How can I help you?", <<>>, <<>>)>>)

Add ==
    \E args \in AddArgs :
        LET r == add_contact(parse_input(<<"add">> \o args).args, book)
        IN Turn(<<"add">> \o args, <<>>, <<>>, r, <<r.ret>>)

Delete ==
    \E args \in NameOnlyArgs :
        LET r == delete_contact(parse_input(<<"delete">> \o args).args, book)
        IN Turn(<<"delete">> \o args, <<>>, <<>>, r, <<r.ret>>)

\* whether change_contact reaches its input() call
Prompts(args, b) ==
    /\ Len(args) = 2
    /\ key_index(b, args[1]) # 0
    /\ Len(b[key_index(b, args[1])].phones) > 1

Change ==
    \E args \in ChangeArgs :
        \E selection \in (IF Prompts(args, book) THEN Selections ELSE {<<>>}) :
            LET r == change_contact(parse_input(<<"change">> \o args).args, book, selection)
            IN Turn(<<"change">> \o args, selection, <<>>, r, <<r.ret>>)

\* args[0] is read in main, outside input_error
PhoneLookup ==
    \E args \in NameOnlyArgs :
        LET a == parse_input(<<"phone">> \o args).args
            f == find(book, a[1])
            r == IF Len(a) = 0 THEN Raise(book, <<>>, "IndexError")
                 ELSE Return(book, f.printed,
                             IF f.idx # 0 THEN str_record(book[f.idx]) ELSE NoneMsg)
        IN Turn(<<"phone">> \o args, <<>>, <<>>, r, <<r.ret>>)

All ==
    Turn(<<"all">>, <<>>, <<>>, Return(book, <<>>, NoneMsg),
         IF Len(book) = 0
         THEN <<Msg("There are no contacts, wanna add some?", <<>>, <<>>)>>
         ELSE str_book(book))

AddBirthday ==
    \E args \in BirthdayArgs :
        LET r == add_birthday(parse_input(<<"add-birthday">> \o args).args, book)
        IN Turn(<<"add-birthday">> \o args, <<>>, <<>>, r, <<r.ret>>)

ShowBirthday ==
    \E args \in NameOnlyArgs :
        LET r == show_birthday(parse_input(<<"show-birthday">> \o args).args, book)
        IN Turn(<<"show-birthday">> \o args, <<>>, <<>>, r, <<r.ret>>)

\* main calls get_upcoming_birthdays itself and prints one line per entry
Birthdays ==
    \E today \in Todays :
        LET u == get_upcoming_birthdays(book, today, DefaultDays)
            r == IF u.raised # "" THEN Raise(book, u.printed, u.raised)
                 ELSE Return(book, u.printed, NoneMsg)
        IN Turn(<<"birthdays">>, <<>>, today, r,
                [i \in 1..Len(u.value) |->
                    Msg("Name {a} should be congratulated on {b} !",
                        u.value[i].name, u.value[i].date)])

Invalid ==
    \E w \in {"help"} :
        Turn(<<w>>, <<>>, <<>>, Return(book, <<>>, NoneMsg),
             <<Msg("Invalid command.", <<>>, <<>>)>>)

Next ==
    \/ StartSession
    \/ BlankLine
    \/ Close
    \/ Hello
    \/ Add
    \/ Delete
    \/ Change
    \/ PhoneLookup
    \/ All
    \/ AddBirthday
    \/ ShowBirthday
    \/ Birthdays
    \/ Invalid

Spec == Init /\ [][Next]_vars

TypeOK ==
    /\ pc \in {"idle", "running", "closed", "crashed"}
    /\ steps \in 0..MaxSteps

----------------------------------------------------------------------------
(* Properties.  cmd is the line handled by the last step, pre the book     *)
(* before it, book and out the book and the console lines after it.        *)

\* the command word of the last line, "" for a blank line
Word == IF Len(cmd.line) = 0 THEN "" ELSE lower(cmd.line[1])

\* the last step handled a line of the given command with n arguments
Handled(command, n) == cmd.from = "running" /\ Word = command /\ Len(cmd.line) = n + 1

Shown(text) == \E i \in 1..Len(out) : out[i].text = text

NoRepeats(ps) == \A i, j \in 1..Len(ps) : i # j => ps[i] # ps[j]

\* C1: in every reachable state no Record of the book holds the same phone
\* string twice.
C1_NoDuplicatePhones == \A i \in 1..Len(book) : NoRepeats(book[i].phones)

\* the book without the Record stored under name n
Without(b, n) == SelectSeq(b, LAMBDA r : r.name # n)

\* C2: after "delete n" the book is the book before it without the Record of
\* n, every other Record in place and unchanged (the same book when n is not
\* in it).
C2_DeleteRemovesTheNamedRecord ==
    Handled("delete", 1) => book = Without(pre, cmd.line[2])

\* C3: "change n p" with a well-formed p on a Record with exactly one phone
\* leaves that Record with the single phone p, no selection being read; on a
\* Record with no phone it answers "No phones to edit" and changes nothing.
C3_ChangeWithOneOrNoPhone ==
    (Handled("change", 2) /\ key_index(pre, cmd.line[2]) # 0 /\ phone_ok(cmd.line[3])) =>
        LET i == key_index(pre, cmd.line[2]) IN
        /\ Len(pre[i].phones) = 1 =>
               /\ book = [pre EXCEPT ![i].phones = <<cmd.line[3]>>]
               /\ cmd.sel = <<>>
        /\ Len(pre[i].phones) = 0 => (Shown("No phones to edit") /\ book = pre)

\* C4: a line that is not an exit word never ends the process: whatever error
\* its handling raises, the loop is still running after it.
C4_ErrorsNeverEndTheProcess ==
    (cmd.from = "running" /\ Word \notin {"close", "exit", "bb"}) => pc = "running"

\* the date string names no date of the calendar in the form DD.MM.YYYY
BadDate(s) == strptime(s).raised # ""

\* C5: add, change and add-birthday with a non-alphabetic name, a phone that
\* is not 10 digits or an invalid date leave the book as it was.
C5_InvalidArgumentsChangeNothing ==
    /\ (Handled("add", 2) /\ (~isalpha(cmd.line[2]) \/ ~phone_ok(cmd.line[3]))) => book = pre
    /\ (Handled("change", 2) /\ (~isalpha(cmd.line[2]) \/ ~phone_ok(cmd.line[3]))) => book = pre
    /\ (Handled("add-birthday", 2) /\ (~isalpha(cmd.line[2]) \/ BadDate(cmd.line[3])))
           => book = pre

\* C6: the birthdays command shows "No birthdays" when get_upcoming_birthdays
\* reports no Record, and otherwise one entry per reported Record.
C6_BirthdaysSentinelOrEntries ==
    Handled("birthdays", 0) =>
        LET u == get_upcoming_birthdays(pre, cmd.today, DefaultDays) IN
        u.raised = "" =>
            IF Len(u.value) = 0 THEN Shown("No birthdays")
            ELSE \A k \in 1..Len(u.value) :
                     \E i \in 1..Len(out) : out[i].a = u.value[k].name
                                            /\ out[i].b = u.value[k].date

\* the next occurrence of a birthday's month and day: this year's, or next
\* year's when this year's is before today
NextOccurrence(bd, today) ==
    IF DateLess(<<today[1], bd[2], bd[3]>>, today)
    THEN <<today[1] + 1, bd[2], bd[3]>>
    ELSE <<today[1], bd[2], bd[3]>>

\* the result of get_upcoming_birthdays in the birthdays command just handled
Upcoming == get_upcoming_birthdays(pre, cmd.today, DefaultDays)

\* C7: every reminder date in the result is the next occurrence itself when
\* that is a weekday, the occurrence + 2 days when it is a Saturday and + 1
\* day when it is a Sunday, and so never falls on a Saturday or Sunday.
C7_WeekendRollForward ==
    (Handled("birthdays", 0) /\ Upcoming.raised = "") =>
        \A k \in 1..Len(Upcoming.value) :
            LET rec      == pre[key_index(pre, Upcoming.value[k].name)]
                occ      == NextOccurrence(rec.birthday, cmd.today)
                reminder == strptime(Upcoming.value[k].date)
            IN /\ reminder.raised = ""
               /\ weekday(occ) \in 0..4 => reminder.value = occ
               /\ weekday(occ) = 5 => reminder.value = AddDays(occ, 2)
               /\ weekday(occ) = 6 => reminder.value = AddDays(occ, 1)
               /\ weekday(reminder.value) \in 0..4

\* a reminder was computed for an occurrence on a Saturday
C7_Witness ==
    /\ Handled("birthdays", 0)
    /\ Upcoming.raised = ""
    /\ pc = "running"
    /\ \E k \in 1..Len(Upcoming.value) :
           LET rec == pre[key_index(pre, Upcoming.value[k].name)]
           IN /\ weekday(NextOccurrence(rec.birthday, cmd.today)) = 5
              /\ \E i \in 1..Len(out) : out[i].b = Upcoming.value[k].date

\* the Record has a Birthday whose next occurrence is 0..days days from today
InWindow(rec, today, days) ==
    /\ rec.birthday # None
    /\ toordinal(NextOccurrence(rec.birthday, today)) - toordinal(today) \in 0..days

\* C8: for every book and today, get_upcoming_birthdays gives a result whose
\* keys are exactly the names of the Records with a Birthday whose next
\* occurrence is 0..7 days from today.
C8_KeysAreTheRecordsInTheWindow ==
    Handled("birthdays", 0) =>
        /\ Upcoming.raised = ""
        /\ \A i \in 1..Len(pre) :
               (\E k \in 1..Len(Upcoming.value) : Upcoming.value[k].name = pre[i].name)
                   <=> InWindow(pre[i], cmd.today, DefaultDays)

\* the last step started a session
Started == Len(cmd.line) = 1 /\ cmd.line[1] = "(start)"

\* C9: a session started with no file begins with an empty book, and one
\* started after a session that ended with close / exit / bb begins with the
\* book that session held at its exit.
C9_SessionsRoundTrip ==
    Started =>
        /\ ~file.exists => book = <<>>
        /\ cmd.from = "closed" => book = pre

\* a session started after a clean exit with a Record that has a phone and a
\* birthday
C9_Witness ==
    /\ Started
    /\ cmd.from = "closed"
    /\ \E i \in 1..Len(pre) : Len(pre[i].phones) > 0 /\ pre[i].birthday # None

\* C10: when change shows its success message for <old> and <new>, the
\* Record holds <new> at the position selected, where <old> was.
C10_SuccessMeansReplaced ==
    (Handled("change", 2) /\ Shown("Contact updated succesfully. Number {a} was replaced with {b}.")) =>
        LET i  == key_index(pre, cmd.line[2])
            at == py_index(Len(pre[i].phones), int(cmd.sel).value)
        IN /\ book[i].phones[at] = cmd.line[3]
           /\ pre[i].phones[at] = out[Len(out)].a

====
